---- MODULE Spec2Model ----
(***************************************************************************)
(* A model of github.com/common-fate/updatecheck: the background update    *)
(* check of a command-line program.                                        *)
(*                                                                         *)
(*   Check(app, version, prod)  kill switch, ledger debounce, then a       *)
(*                              goroutine doCheck is launched               *)
(*   doCheck                    one network call, the ledger is saved, the *)
(*                              message is appended to checks.msgs          *)
(*   Print()                    waits on the wait group, logs checks.msgs  *)
(*                                                                         *)
(* The source holds two variants of the ledger (versionConfig): the one of *)
(* last_check.go, whose Save resolves the configuration directory itself,  *)
(* and the one of check.go:196-260, whose Save uses the record's dir       *)
(* field.  The variable `variant` says which one the build holds.          *)
(***************************************************************************)
EXTENDS Integers, Sequences, FiniteSets, TLC

\* ------------------------------------------------------------ bounds
\* host goroutines that are inside Check or Print at the same time
NumThreads == 2
\* calls of Check the host makes in one process run
MaxChecks == 2
\* calls of Print the host makes in one process run
MaxPrints == 2
\* calls the host makes in one process run
MaxCalls == 3
\* midnights that pass after the first call of Check
MaxTicks == 8

\* ------------------------------------------------------------ data
\* type App string: the applications of the host programs
Apps == {"granted"}

\* time.Weekday: Sunday = 0 .. Saturday = 6
Weekdays == 0..6

\* time.Now().Weekday() on calendar day d (day 0 is a Sunday)
Weekday(d) == d % 7

\* the message texts a server sends
Messages == {"", "v2 available"}

\* checkResponse, as decoded from a response body
Responses == [UpdateRequired : BOOLEAN, Message : Messages]

\* what the HTTP client hands back: a transport error, or a status with a
\* body; a body is a JSON checkResponse or something that does not decode
Replies ==
    {[err |-> TRUE, status |-> 0, decodes |-> FALSE,
      body |-> [UpdateRequired |-> FALSE, Message |-> ""]]}
    \cup {[err |-> FALSE, status |-> 500, decodes |-> FALSE,
           body |-> [UpdateRequired |-> FALSE, Message |-> ""]]}
    \cup {[err |-> FALSE, status |-> 200, decodes |-> FALSE,
           body |-> [UpdateRequired |-> FALSE, Message |-> ""]]}
    \cup {[err |-> FALSE, status |-> 200, decodes |-> TRUE, body |-> b] :
            b \in Responses}

\* ------------------------------------------------------------ the ledger
\* the values of GRANTED_DISABLE_UPDATE_CHECK
EnvValues == {"", "true"}

\* the two variants of versionConfig in the source
Variants == {"resolve", "dirfield"}

\* path.Join(cd, "commonfate")
ConfigDir == "commonfate"

\* path.Join(dir, string(app)+"-update")
Path(app) == <<ConfigDir, app, "-update">>

Paths == {Path(a) : a \in Apps}

\* decimal digits of encoding/json for the weekday numbers
Digit == [w \in Weekdays |->
            CASE w = 0 -> "0" [] w = 1 -> "1" [] w = 2 -> "2" [] w = 3 -> "3"
              [] w = 4 -> "4" [] w = 5 -> "5" [] OTHER -> "6"]

\* json.Marshal(vc): only the exported field LastCheckForUpdates is encoded
Marshal(vc) ==
    <<"{", "lastCheckForUpdates", ":", Digit[vc.LastCheckForUpdates], "}">>

\* json.Unmarshal(data, &vc): [ok, LastCheckForUpdates]; a JSON object
\* without the field decodes and leaves the field alone; anything else is
\* an error and the field keeps its zero value
Unmarshal(data) ==
    IF data = <<"{", "}">>
    THEN [ok |-> TRUE, LastCheckForUpdates |-> 0]
    ELSE IF /\ Len(data) = 5
            /\ data[1] = "{" /\ data[2] = "lastCheckForUpdates"
            /\ data[3] = ":" /\ data[5] = "}"
            /\ \E w \in Weekdays : Digit[w] = data[4]
         THEN [ok |-> TRUE,
               LastCheckForUpdates |->
                   CHOOSE w \in Weekdays : Digit[w] = data[4]]
         ELSE [ok |-> FALSE, LastCheckForUpdates |-> 0]

\* a file of the configuration directory: absent, or its content
NoFile == [exists |-> FALSE, data |-> <<>>]
FileOf(data) == [exists |-> TRUE, data |-> data]

\* how the file system behaves during one process run:
\*   "ok"        every call succeeds
\*   "nocfg"     os.UserConfigDir or os.MkdirAll fails
\*   "readerr"   os.ReadFile fails
\*   "openerr"   os.WriteFile cannot open the file
\*   "writeerr"  os.WriteFile opens (and truncates) the file, then fails
FsModes == {"ok", "nocfg", "readerr", "openerr", "writeerr"}

\* os.WriteFile: the file is opened with O_TRUNC and then written
WriteFile(old, data, mode) ==
    CASE mode = "openerr" -> old
      [] mode = "writeerr" -> FileOf(<<>>)
      [] OTHER -> FileOf(data)

\* the zero value of versionConfig, with app set (loadVersionConfig line 39)
ZeroConfig(app) == [dir |-> "", app |-> app, LastCheckForUpdates |-> 0]

\* loadVersionConfig(app) of build variant v, on the files fs of a file
\* system in the given mode.  The result also says (found) whether the
\* record came from the file.
loadVersionConfig(fs, v, mode, app) ==
    LET dir == IF v = "dirfield" THEN ConfigDir ELSE ""
        f == fs[Path(app)]
        u == Unmarshal(f.data)
    IN  IF mode = "nocfg"
        THEN [vc |-> ZeroConfig(app), found |-> FALSE]
        ELSE IF ~f.exists \/ mode = "readerr" \/ ~u.ok
        THEN [vc |-> [ZeroConfig(app) EXCEPT !.dir = dir], found |-> FALSE]
        ELSE [vc |-> [dir |-> dir, app |-> app,
                      LastCheckForUpdates |-> u.LastCheckForUpdates],
              found |-> TRUE]

\* versionConfig.Save of last_check.go: the error returned and the files
\* afterwards; the error of os.WriteFile is dropped
SaveResolve(fs, vc, mode) ==
    IF mode = "nocfg"
    THEN [err |-> TRUE, fs |-> fs]
    ELSE [err |-> FALSE,
          fs |-> [fs EXCEPT ![Path(vc.app)] =
                      WriteFile(fs[Path(vc.app)], Marshal(vc), mode)]]

\* versionConfig.Save of check.go:206-226: the record names its directory
SaveDirField(fs, vc, mode) ==
    IF vc.dir = "" \/ vc.app = ""
    THEN [err |-> TRUE, fs |-> fs]
    ELSE SaveResolve(fs, vc, mode)

Save(fs, v, vc, mode) ==
    IF v = "dirfield"
    THEN SaveDirField(fs, vc, mode)
    ELSE SaveResolve(fs, vc, mode)

\* the ledger file when the process starts on calendar day d: absent, cut
\* short, or the record of a check made today or on the day before
InitialFiles(d) ==
    {NoFile, FileOf(<<"{">>),
     FileOf(Marshal([LastCheckForUpdates |-> Weekday(d)])),
     FileOf(Marshal([LastCheckForUpdates |-> Weekday(d + 6)]))}

\* ------------------------------------------------------------ state
VARIABLES
    env,        \* os.Getenv("GRANTED_DISABLE_UPDATE_CHECK")
    variant,    \* which versionConfig the build holds
    fsys,       \* how the file system behaves during this run
    day,        \* the calendar day (time.Now())
    files,      \* the files of the configuration directory, by path
    writer,     \* history: the task whose Save wrote each file (0: none)
    msgs,       \* checks.msgs
    mu,         \* checks.mu: who holds it
    waitgroup,  \* the counter of waitgroup
    tasks,      \* the doCheck goroutines, in launch order
    calls,      \* the calls of Check and Print, in call order: where each
                \* one is, and (history) what it saw and did
    rt          \* the round trip of a ledger record (SpecRT only)

vars == <<env, variant, fsys, day, files, writer, msgs, mu, waitgroup,
          tasks, calls, rt>>

Free == <<"free", 0>>

\* the round trip is not part of a process run
RtOff == [pc |-> "off", app |-> "", w |-> 0, err |-> FALSE, got |-> 0,
          old |-> NoFile]

\* var waitgroup sync.WaitGroup; var checks struct{mu; msgs}: zero values
Init ==
    /\ env \in EnvValues
    /\ variant \in Variants
    /\ fsys \in FsModes
    /\ day \in Weekdays
    /\ files \in [Paths -> InitialFiles(day)]
    /\ writer = [p \in Paths |-> 0]
    /\ msgs = <<>>
    /\ mu = Free
    /\ waitgroup = 0
    /\ tasks = <<>>
    /\ calls = <<>>
    /\ rt = RtOff

\* a call of Check or Print
NewCall(kind, app, pc) ==
    [kind |-> kind, app |-> app,
     pc |-> pc,           \* where the call is; "ret": it has returned
     killed |-> FALSE,    \* Check returned at the kill switch
     fsio |-> FALSE,      \* Check touched the file system
     found |-> FALSE,     \* the record Check loaded came from the file
     sawWriter |-> 0,     \* the task that wrote the file Check loaded
     rec |-> 0,           \* the weekday of the record Check loaded
     loadDay |-> day,     \* the day of the call
     pending |-> 0,       \* the length of checks.msgs when Check loaded
     task |-> 0,          \* the task Check launched (0: none)
     before |-> Len(tasks),   \* the tasks launched before the call
     emitted |-> <<>>]    \* what Print has logged

CallsOf(kind) == {i \in DOMAIN calls : calls[i].kind = kind}

\* the calls that have not returned: one host goroutine each
Active == {i \in DOMAIN calls : calls[i].pc # "ret"}

\* ------------------------------------------------------------ Check
\* a slip: the variable is compared with another literal
Disabled_WrongLiteral(e) == e = "1"

\* check.go:50  os.Getenv("GRANTED_DISABLE_UPDATE_CHECK") == "true"
Disabled(e) == e = "true"

\* a slip: the recorded weekday is not looked at
Due_Always(now, vc) == TRUE

\* a slip: the comparison is inverted
Due_Inverted(now, vc) == now = vc.LastCheckForUpdates

\* check.go:56  the check is skipped when today is the recorded weekday
Due(now, vc) == now # vc.LastCheckForUpdates

\* a slip: the messages are reset before the weekdays are compared
Check_ResetsFirst(app) ==
    /\ Cardinality(Active) < NumThreads
    /\ Len(calls) < MaxCalls
    /\ Cardinality(CallsOf("Check")) < MaxChecks
    /\ IF Disabled(env)
       THEN calls' = Append(calls, [NewCall("Check", app, "ret") EXCEPT
                                      !.killed = TRUE])
       ELSE LET l == loadVersionConfig(files, variant, fsys, app)
                seen == [NewCall("Check", app, "ret") EXCEPT
                           !.fsio = TRUE, !.found = l.found,
                           !.rec = l.vc.LastCheckForUpdates,
                           !.pending = Len(msgs),
                           !.sawWriter = IF l.found
                                         THEN writer[Path(app)] ELSE 0]
            IN  IF Due(Weekday(day), l.vc)
                THEN calls' = Append(calls, [seen EXCEPT !.pc = "c_lock"])
                ELSE calls' = Append(calls, seen)
    /\ msgs' = IF Disabled(env) THEN msgs ELSE <<>>
    /\ UNCHANGED <<env, variant, fsys, day, files, writer, mu,
                   waitgroup, tasks, rt>>

\* check.go:49-59  Check is called: the kill switch is tested, then the
\* ledger is loaded and compared with today
Check(app) ==
    /\ Cardinality(Active) < NumThreads
    /\ Len(calls) < MaxCalls
    /\ Cardinality(CallsOf("Check")) < MaxChecks
    /\ IF Disabled(env)
       THEN calls' = Append(calls, [NewCall("Check", app, "ret") EXCEPT
                                      !.killed = TRUE])
       ELSE LET l == loadVersionConfig(files, variant, fsys, app)
                seen == [NewCall("Check", app, "ret") EXCEPT
                           !.fsio = TRUE, !.found = l.found,
                           !.rec = l.vc.LastCheckForUpdates,
                           !.pending = Len(msgs),
                           !.sawWriter = IF l.found
                                         THEN writer[Path(app)] ELSE 0]
            IN  IF Due(Weekday(day), l.vc)
                THEN calls' = Append(calls, [seen EXCEPT !.pc = "c_lock"])
                ELSE calls' = Append(calls, seen)
    /\ UNCHANGED <<env, variant, fsys, day, files, writer, msgs, mu,
                   waitgroup, tasks, rt>>

\* check.go:62  checks.mu.Lock()
CheckLock(i) ==
    /\ calls[i].pc = "c_lock"
    /\ mu = Free
    /\ mu' = <<"call", i>>
    /\ calls' = [calls EXCEPT ![i].pc = "c_reset"]
    /\ UNCHANGED <<env, variant, fsys, day, files, writer, msgs,
                   waitgroup, tasks, rt>>

NewTask(app, c) ==
    [app |-> app, pc |-> "call", by |-> c,
     outcome |-> "pending",   \* how callCheckAPI ended
     resp |-> [UpdateRequired |-> FALSE, Message |-> ""],
     saved |-> "no",          \* what vc.Save() returned: "nil" or "err"
     saveDay |-> 0,           \* the day vc.Save() was called
     appended |-> FALSE,      \* the message went into checks.msgs
     at |-> 0]                \* its index in checks.msgs (0: not in it)

\* check.go:64-68  the messages are reset, the goroutine is launched, and
\* the deferred Unlock runs as Check returns
CheckLaunch(i) ==
    /\ calls[i].pc = "c_reset"
    /\ msgs' = <<>>
    /\ waitgroup' = waitgroup + 1
    /\ tasks' = Append([k \in DOMAIN tasks |-> [tasks[k] EXCEPT !.at = 0]],
                       NewTask(calls[i].app, i))
    /\ mu' = Free
    /\ calls' = [calls EXCEPT ![i].task = Len(tasks) + 1, ![i].pc = "ret"]
    /\ UNCHANGED <<env, variant, fsys, day, files, writer, rt>>

\* ------------------------------------------------------------ doCheck
\* check.go:132-147  what callCheckAPI makes of the client's reply
callCheckAPI(reply) ==
    IF reply.err
    THEN [err |-> "neterr", resp |-> [UpdateRequired |-> FALSE, Message |-> ""]]
    ELSE IF reply.status # 200
    THEN [err |-> "status", resp |-> [UpdateRequired |-> FALSE, Message |-> ""]]
    ELSE IF ~reply.decodes
    THEN [err |-> "decode", resp |-> [UpdateRequired |-> FALSE, Message |-> ""]]
    ELSE [err |-> "ok", resp |-> reply.body]

\* a slip: the error of callCheckAPI is dropped
Failed_Ignored(r) == FALSE

\* check.go:81-84  doCheck returns when callCheckAPI failed
Failed(r) == r.err # "ok"

\* a slip: the condition is inverted
Reports_Inverted(resp) == ~resp.UpdateRequired

\* a slip: the message is reported whatever the response says
Reports_Always(resp) == TRUE

\* check.go:94  the message is reported when an update is required
Reports(resp) == resp.UpdateRequired

\* check.go:85-88  the record doCheck saves
TaskRecord(app, now) ==
    [dir |-> "", app |-> app, LastCheckForUpdates |-> now]

\* check.go:79-84  the network call; on an error the deferred
\* waitgroup.Done() ends the goroutine
TaskCall(k) ==
    /\ tasks[k].pc = "call"
    /\ \E reply \in Replies :
         LET r == callCheckAPI(reply)
             called == [tasks[k] EXCEPT !.outcome = r.err, !.resp = r.resp]
         IN  IF Failed(r)
             THEN /\ tasks' = [tasks EXCEPT ![k] = [called EXCEPT !.pc = "done"]]
                  /\ waitgroup' = waitgroup - 1
             ELSE /\ tasks' = [tasks EXCEPT ![k] = [called EXCEPT !.pc = "save"]]
                  /\ waitgroup' = waitgroup
    /\ UNCHANGED <<env, variant, fsys, day, files, writer, msgs, mu, calls, rt>>

\* a slip: doCheck returns when vc.Save() failed
TaskSave_ReturnsOnError(k) ==
    /\ tasks[k].pc = "save"
    /\ LET vc == TaskRecord(tasks[k].app, Weekday(day))
           s == Save(files, variant, vc, fsys)
           saved == [tasks[k] EXCEPT !.saved = IF s.err THEN "err" ELSE "nil",
                                     !.saveDay = day]
       IN  /\ files' = s.fs
           /\ writer' = IF s.err \/ fsys = "openerr"
                        THEN writer
                        ELSE [writer EXCEPT ![Path(vc.app)] = k]
           /\ IF Reports(tasks[k].resp) /\ ~s.err
              THEN /\ tasks' = [tasks EXCEPT ![k] = [saved EXCEPT !.pc = "lock"]]
                   /\ waitgroup' = waitgroup
              ELSE /\ tasks' = [tasks EXCEPT ![k] = [saved EXCEPT !.pc = "done"]]
                   /\ waitgroup' = waitgroup - 1
    /\ UNCHANGED <<env, variant, fsys, day, msgs, mu, calls, rt>>

\* check.go:85-94  the ledger is saved (an error is logged only); without
\* an update to report the goroutine ends
TaskSave(k) ==
    /\ tasks[k].pc = "save"
    /\ LET vc == TaskRecord(tasks[k].app, Weekday(day))
           s == Save(files, variant, vc, fsys)
           saved == [tasks[k] EXCEPT !.saved = IF s.err THEN "err" ELSE "nil",
                                     !.saveDay = day]
       IN  /\ files' = s.fs
           /\ writer' = IF s.err \/ fsys = "openerr"
                        THEN writer
                        ELSE [writer EXCEPT ![Path(vc.app)] = k]
           /\ IF Reports(tasks[k].resp)
              THEN /\ tasks' = [tasks EXCEPT ![k] = [saved EXCEPT !.pc = "lock"]]
                   /\ waitgroup' = waitgroup
              ELSE /\ tasks' = [tasks EXCEPT ![k] = [saved EXCEPT !.pc = "done"]]
                   /\ waitgroup' = waitgroup - 1
    /\ UNCHANGED <<env, variant, fsys, day, msgs, mu, calls, rt>>

\* a slip: doCheck appends without taking checks.mu
TaskLock_NoMutex(k) ==
    /\ tasks[k].pc = "lock"
    /\ mu' = IF mu = Free THEN <<"task", k>> ELSE mu
    /\ tasks' = [tasks EXCEPT ![k].pc = "append"]
    /\ UNCHANGED <<env, variant, fsys, day, files, writer, msgs, waitgroup,
                   calls, rt>>

\* check.go:95  checks.mu.Lock()
TaskLock(k) ==
    /\ tasks[k].pc = "lock"
    /\ mu = Free
    /\ mu' = <<"task", k>>
    /\ tasks' = [tasks EXCEPT ![k].pc = "append"]
    /\ UNCHANGED <<env, variant, fsys, day, files, writer, msgs, waitgroup,
                   calls, rt>>

\* a slip: checks.mu is not unlocked
TaskAppend_NoUnlock(k) ==
    /\ tasks[k].pc = "append"
    /\ msgs' = Append(msgs, tasks[k].resp.Message)
    /\ waitgroup' = waitgroup - 1
    /\ tasks' = [tasks EXCEPT ![k].pc = "done", ![k].appended = TRUE,
                              ![k].at = Len(msgs) + 1]
    /\ UNCHANGED <<env, variant, fsys, day, files, writer, mu, calls, rt>>

\* check.go:97-99  the message is appended; the deferred Unlock and
\* waitgroup.Done() run as doCheck returns
TaskAppend(k) ==
    /\ tasks[k].pc = "append"
    /\ msgs' = Append(msgs, tasks[k].resp.Message)
    /\ mu' = Free
    /\ waitgroup' = waitgroup - 1
    /\ tasks' = [tasks EXCEPT ![k].pc = "done", ![k].appended = TRUE,
                              ![k].at = Len(msgs) + 1]
    /\ UNCHANGED <<env, variant, fsys, day, files, writer, calls, rt>>

\* ------------------------------------------------------------ Print
\* a slip: Print does not wait
WaitReturns_NoWait(n) == TRUE

\* a slip: Wait returns when the counter is not zero
WaitReturns_Inverted(n) == n # 0

\* check.go:72  waitgroup.Wait() returns when the counter is zero
WaitReturns(n) == n = 0

\* check.go:71  Print is called
PrintCall ==
    /\ Cardinality(Active) < NumThreads
    /\ Len(calls) < MaxCalls
    /\ Cardinality(CallsOf("Print")) < MaxPrints
    /\ calls' = Append(calls, NewCall("Print", "", "p_wait"))
    /\ UNCHANGED <<env, variant, fsys, day, files, writer, msgs, mu,
                   waitgroup, tasks, rt>>

\* check.go:72  waitgroup.Wait()
PrintWait(i) ==
    /\ calls[i].pc = "p_wait"
    /\ WaitReturns(waitgroup)
    /\ calls' = [calls EXCEPT ![i].pc = "p_range"]
    /\ UNCHANGED <<env, variant, fsys, day, files, writer, msgs, mu,
                   waitgroup, tasks, rt>>

\* a slip: Print empties the slice it has logged
PrintRange_Drains(i) ==
    /\ calls[i].pc = "p_range"
    /\ calls' = [calls EXCEPT ![i].emitted = msgs, ![i].pc = "ret"]
    /\ msgs' = <<>>
    /\ UNCHANGED <<env, variant, fsys, day, files, writer, mu,
                   waitgroup, tasks, rt>>

\* check.go:73-76  range checks.msgs: the slice is read once, without the
\* lock, each of its messages is logged with clio.Info, and Print returns
PrintRange(i) ==
    /\ calls[i].pc = "p_range"
    /\ calls' = [calls EXCEPT ![i].emitted = msgs, ![i].pc = "ret"]
    /\ UNCHANGED <<env, variant, fsys, day, files, writer, msgs, mu,
                   waitgroup, tasks, rt>>

\* a holder of checks.mu is about to write checks.msgs (check.go:64, 97)
Writing ==
    \/ \E i \in DOMAIN calls : calls[i].pc = "c_reset"
    \/ \E k \in DOMAIN tasks : tasks[k].pc = "append"

\* check.go:73  Print reads the slice without checks.mu. Read before or
\* after the write of a lock holder it gets the old or the new slice
\* (PrintRange); read during the write it gets words of both, and ranging
\* over a nil pointer with a length that is not zero faults: Print does
\* not return
PrintRace(i) ==
    /\ calls[i].pc = "p_range"
    /\ Writing
    /\ calls' = [calls EXCEPT ![i].pc = "panic"]
    /\ UNCHANGED <<env, variant, fsys, day, files, writer, msgs, mu,
                   waitgroup, tasks, rt>>

Next ==
    \/ \E a \in Apps : Check(a)
    \/ \E i \in DOMAIN calls : CheckLock(i)
    \/ \E i \in DOMAIN calls : CheckLaunch(i)
    \/ \E k \in DOMAIN tasks : TaskCall(k)
    \/ \E k \in DOMAIN tasks : TaskSave(k)
    \/ \E k \in DOMAIN tasks : TaskLock(k)
    \/ \E k \in DOMAIN tasks : TaskAppend(k)
    \/ PrintCall
    \/ \E i \in DOMAIN calls : PrintWait(i)
    \/ \E i \in DOMAIN calls : PrintRange(i)
    \/ \E i \in DOMAIN calls : PrintRace(i)

Spec == Init /\ [][Next]_vars

\* ------------------------------------------------------------ days
\* The host calls Check on one day after another: each call is made when
\* the calls and the tasks before it have ended, and midnights pass
\* between the calls. The kill switch is not set.

\* no call and no task is running
Quiet ==
    /\ Active = {}
    /\ \A k \in DOMAIN tasks : tasks[k].pc = "done"

\* check.go:56  time.Now().Weekday() is that of the next day
Tick ==
    /\ Quiet
    /\ calls # <<>>
    /\ day < calls[1].loadDay + MaxTicks
    /\ day' = day + 1
    /\ UNCHANGED <<env, variant, fsys, files, writer, msgs, mu, waitgroup,
                   tasks, calls, rt>>

InitDays == Init /\ env = ""

NextDays ==
    \/ \E a \in Apps : Quiet /\ Check(a)
    \/ \E i \in DOMAIN calls : CheckLock(i)
    \/ \E i \in DOMAIN calls : CheckLaunch(i)
    \/ \E k \in DOMAIN tasks : TaskCall(k)
    \/ \E k \in DOMAIN tasks : TaskSave(k)
    \/ \E k \in DOMAIN tasks : TaskLock(k)
    \/ \E k \in DOMAIN tasks : TaskAppend(k)
    \/ Tick

SpecDays == InitDays /\ [][NextDays]_vars

\* ------------------------------------------------------------ round trip
\* A ledger record is saved and loaded again, outside any check: the
\* record is the one doCheck builds, or the one loadVersionConfig returned
\* with its weekday set.

\* every content of a ledger file
AllFiles ==
    {NoFile, FileOf(<<>>), FileOf(<<"{">>), FileOf(<<"{", "}">>)}
    \cup {FileOf(Marshal([LastCheckForUpdates |-> w])) : w \in Weekdays}

InitRT ==
    /\ env = ""
    /\ variant \in Variants
    /\ fsys \in FsModes
    /\ day = 0
    /\ files \in [Paths -> AllFiles]
    /\ writer = [p \in Paths |-> 0]
    /\ msgs = <<>>
    /\ mu = Free
    /\ waitgroup = 0
    /\ tasks = <<>>
    /\ calls = <<>>
    /\ rt = [RtOff EXCEPT !.pc = "start"]

\* vc.Save() for a record of weekday w
RTSave(app, w, loaded) ==
    /\ rt.pc = "start"
    /\ LET vc == IF loaded
                 THEN [loadVersionConfig(files, variant, fsys, app).vc
                         EXCEPT !.LastCheckForUpdates = w]
                 ELSE TaskRecord(app, w)
           s == Save(files, variant, vc, fsys)
       IN  /\ files' = s.fs
           /\ rt' = [rt EXCEPT !.pc = "saved", !.app = app, !.w = w,
                               !.err = s.err, !.old = files[Path(app)]]
    /\ UNCHANGED <<env, variant, fsys, day, writer, msgs, mu, waitgroup,
                   tasks, calls>>

\* loadVersionConfig(app) for the application saved
RTLoad ==
    /\ rt.pc = "saved"
    /\ rt' = [rt EXCEPT !.pc = "loaded",
                        !.got = loadVersionConfig(files, variant, fsys, rt.app)
                                    .vc.LastCheckForUpdates]
    /\ UNCHANGED <<env, variant, fsys, day, files, writer, msgs, mu,
                   waitgroup, tasks, calls>>

NextRT ==
    \/ \E a \in Apps, w \in Weekdays, l \in BOOLEAN : RTSave(a, w, l)
    \/ RTLoad

SpecRT == InitRT /\ [][NextRT]_vars

\* ------------------------------------------------------------ claims
\* the tasks launched by the calls of S that have made their network call
NetCallsOf(S) ==
    {k \in DOMAIN tasks : tasks[k].by \in S /\ tasks[k].outcome # "pending"}

\* the tasks whose network call failed
FailedTasks ==
    {k \in DOMAIN tasks : tasks[k].outcome \in {"neterr", "status", "decode"}}

\* the record of today's check, as the ledger file holds it
TodaysFile == FileOf(Marshal([LastCheckForUpdates |-> Weekday(day)]))

\* C1, as claimed: of two calls of Check for one application on one day,
\* the first of which launched a check, the second launches nothing and one
\* network call is made in all, whatever the interleaving and the outcome
\* of the first network call.
C1_ExactlyOneNetworkCall ==
    \A i, j \in CallsOf("Check") :
        ( /\ i < j
          /\ calls[i].app = calls[j].app
          /\ ~calls[i].killed /\ ~calls[j].killed
          /\ calls[i].pc = "ret" /\ calls[j].pc = "ret"
          /\ calls[i].task # 0
          /\ \A k \in DOMAIN tasks : tasks[k].pc = "done" )
        => /\ calls[j].task = 0
           /\ Cardinality(NetCallsOf({i, j})) = 1

\* C1, amended: a Check that loads the ledger record an earlier task of the
\* process has written launches nothing, and it and the Check that launched
\* that task make exactly one network call together.
C1_SecondCheckDebounced ==
    \A j \in CallsOf("Check") :
        (~calls[j].killed /\ calls[j].found /\ calls[j].sawWriter # 0)
        => LET i == tasks[calls[j].sawWriter].by
           IN  /\ i # j
               /\ calls[i].app = calls[j].app
               /\ calls[j].pc = "ret"
               /\ calls[j].task = 0
               /\ Cardinality(NetCallsOf({i, j})) = 1

C1_Witness ==
    \E j \in CallsOf("Check") :
        /\ ~calls[j].killed /\ calls[j].found /\ calls[j].sawWriter # 0
        /\ calls[j].pc = "ret"

\* C2: with the kill switch set to "true", Check touches no file, makes no
\* network call, launches no task and leaves checks.msgs, the wait group
\* and the ledger as they were.
C2_KillSwitchNoIO ==
    env = "true"
    => /\ \A i \in CallsOf("Check") :
            /\ ~calls[i].fsio
            /\ calls[i].task = 0
            /\ calls[i].pc = "ret"
       /\ tasks = <<>>
       /\ msgs = <<>>
       /\ waitgroup = 0
       /\ mu = Free
       /\ \A p \in Paths : writer[p] = 0

C2_Witness ==
    /\ env = "true"
    /\ Cardinality(CallsOf("Check")) = MaxChecks
    /\ \E p \in Paths : files[p] # TodaysFile

\* C3, as claimed: a Check that found no ledger record (no file, a file
\* that cannot be read or parsed) launches a check, on every weekday.
C3_NeverCheckedLaunches ==
    \A i \in CallsOf("Check") :
        (~calls[i].killed /\ ~calls[i].found /\ calls[i].pc = "ret")
        => calls[i].task # 0

\* C4: a task whose network call failed (transport error, status other
\* than 200, body that does not decode) ends without saving the ledger and
\* without appending; when it is the only task, the ledger and checks.msgs
\* are as they were and every Print logs nothing.
C4_FailedCheckChangesNothing ==
    /\ \A k \in FailedTasks :
          /\ tasks[k].pc = "done"
          /\ tasks[k].saved = "no"
          /\ ~tasks[k].appended
          /\ \A p \in Paths : writer[p] # k
    /\ (Len(tasks) = 1 /\ FailedTasks = {1})
       => /\ msgs = <<>>
          /\ \A p \in Paths : writer[p] = 0
          /\ \A q \in CallsOf("Print") : calls[q].emitted = <<>>

C4_Witness ==
    /\ Len(tasks) = 1
    /\ tasks[1].outcome = "status"
    /\ \E q \in CallsOf("Print") : calls[q].pc = "ret" /\ calls[q].before = 1

\* C5: after a single due Check whose reply is 200 with updateRequired and
\* a message m that is not empty, a Print called after the launch logs m
\* once and nothing else.
C5_PrintEmitsMessageOnce ==
    \A q \in CallsOf("Print") :
        ( /\ calls[q].pc = "ret"
          /\ calls[q].before = 1
          /\ Len(tasks) = 1
          /\ tasks[1].outcome = "ok"
          /\ tasks[1].resp.UpdateRequired
          /\ tasks[1].resp.Message # "" )
        => calls[q].emitted = <<tasks[1].resp.Message>>

C5_Witness ==
    \E q \in CallsOf("Print") :
        /\ calls[q].pc = "ret"
        /\ calls[q].before = 1
        /\ Len(tasks) = 1
        /\ tasks[1].outcome = "ok"
        /\ tasks[1].resp.UpdateRequired
        /\ calls[q].emitted = <<"v2 available">>

\* C6, as claimed: after a check whose reply is 200 with updateRequired
\* false and an empty message, on a file system that works, the ledger
\* holds today's weekday (so that the next Check of the day is skipped).
C6_LedgerUpdatedWithoutUpdate ==
    \A k \in DOMAIN tasks :
        ( /\ tasks[k].pc = "done"
          /\ tasks[k].outcome = "ok"
          /\ ~tasks[k].resp.UpdateRequired
          /\ tasks[k].resp.Message = ""
          /\ fsys = "ok" )
        => files[Path(tasks[k].app)] = TodaysFile

\* C7: once Print's wait has returned (it is about to log, or has
\* returned), every task launched before Print was called has ended.
C7_PrintWaitsForTasks ==
    \A q \in CallsOf("Print") :
        calls[q].pc \in {"p_range", "ret"}
        => \A k \in 1..calls[q].before : tasks[k].pc = "done"

C7_Witness ==
    \E q \in CallsOf("Print") :
        /\ calls[q].pc = "p_range"
        /\ calls[q].before = 2
        /\ tasks[2].appended

\* C8: as long as Check has not been called, no Print blocks (its wait can
\* return at once), and every Print logs nothing.
C8_PrintWithoutCheck ==
    CallsOf("Check") = {}
    => \A q \in CallsOf("Print") :
          /\ calls[q].pc = "p_wait" => ENABLED PrintWait(q)
          /\ calls[q].emitted = <<>>

C8_Witness ==
    /\ CallsOf("Check") = {}
    /\ \E q, r \in CallsOf("Print") :
          /\ q # r
          /\ calls[q].pc = "p_range"
          /\ calls[r].pc = "p_range"

\* C9, as claimed: with the configuration directory available and the
\* file readable, a record of weekday w that Save saved without an error
\* is loaded again with weekday w.
C9_RoundTrip ==
    ( /\ rt.pc = "loaded"
      /\ fsys \notin {"nocfg", "readerr"}
      /\ ~rt.err )
    => rt.got = rt.w

\* C10, as claimed: every task whose network call succeeded has appended
\* its message when it ends, whatever updateRequired is.
C10_AlwaysAppends ==
    \A k \in DOMAIN tasks :
        (tasks[k].pc = "done" /\ tasks[k].outcome = "ok")
        => tasks[k].appended

\* C10, amended: a task whose network call succeeded appends its message,
\* empty or not, exactly when updateRequired is true; with updateRequired
\* false the message is left out of checks.msgs.
C10_AppendsIffUpdateRequired ==
    /\ \A k \in DOMAIN tasks :
          (tasks[k].pc = "done" /\ tasks[k].outcome = "ok")
          => (tasks[k].appended <=> tasks[k].resp.UpdateRequired)
    /\ (Len(tasks) = 1 /\ tasks[1].pc = "done" /\ tasks[1].outcome = "ok")
       => msgs = IF tasks[1].resp.UpdateRequired
                 THEN <<tasks[1].resp.Message>>
                 ELSE <<>>

C10_Witness ==
    /\ Len(tasks) = 1
    /\ tasks[1].pc = "done"
    /\ tasks[1].outcome = "ok"
    /\ ~tasks[1].resp.UpdateRequired
    /\ tasks[1].resp.Message = "v2 available"
    /\ msgs = <<>>

\* C11, as claimed: Print logs no empty string: a message that is empty is
\* left out, so after a single check whose reply has updateRequired and an
\* empty message a Print logs nothing.
C11_PrintSkipsEmpty ==
    \A q \in CallsOf("Print") :
        /\ \A n \in DOMAIN calls[q].emitted : calls[q].emitted[n] # ""
        /\ ( /\ calls[q].pc = "ret"
             /\ calls[q].before = 1
             /\ Len(tasks) = 1
             /\ tasks[1].outcome = "ok"
             /\ tasks[1].resp.UpdateRequired
             /\ tasks[1].resp.Message = "" )
           => calls[q].emitted = <<>>

\* C12, as claimed: a message is logged by one Print at most: of two
\* Prints with no launch between them or since, the second logs nothing
\* when the first has logged something.
C12_DrainedOnce ==
    \A q, r \in CallsOf("Print") :
        ( /\ q < r
          /\ calls[q].pc = "ret" /\ calls[r].pc = "ret"
          /\ calls[q].before = Len(tasks)
          /\ calls[r].before = Len(tasks)
          /\ calls[q].emitted # <<>> )
        => calls[r].emitted = <<>>

\* C12, amended: Print leaves checks.msgs as it is: a Print called after
\* the last launch logs the whole slice, which is still there when it has
\* returned, and two such Prints log the same messages.
C12_PrintLeavesMessages ==
    \A q \in CallsOf("Print") :
        (calls[q].pc = "ret" /\ calls[q].before = Len(tasks))
        => /\ calls[q].emitted = msgs
           /\ \A r \in CallsOf("Print") :
                 (calls[r].pc = "ret" /\ calls[r].before = Len(tasks))
                 => calls[r].emitted = calls[q].emitted

C12_Witness ==
    \E q, r \in CallsOf("Print") :
        /\ q < r
        /\ calls[q].pc = "ret" /\ calls[r].pc = "ret"
        /\ calls[q].before = 1 /\ calls[r].before = 1
        /\ Len(tasks) = 1
        /\ calls[q].emitted = <<"v2 available">>
        /\ calls[r].emitted = <<"v2 available">>

\* C13, as claimed: a task whose network call succeeded and whose Save
\* returned an error has not appended its message, and when it is the only
\* task every Print logs nothing.
C13_NoMessageWhenSaveFails ==
    /\ \A k \in DOMAIN tasks :
          (tasks[k].pc = "done" /\ tasks[k].saved = "err")
          => ~tasks[k].appended
    /\ (Len(tasks) = 1 /\ tasks[1].saved = "err")
       => \A q \in CallsOf("Print") : calls[q].emitted = <<>>

\* C13, amended: an error of Save is logged and does not end the task: a
\* task whose reply has updateRequired appends its message although Save
\* returned an error, and a Print called after its launch logs it.
C13_SaveErrorDoesNotSuppress ==
    \A k \in DOMAIN tasks :
        ( /\ tasks[k].pc = "done"
          /\ tasks[k].saved = "err"
          /\ tasks[k].resp.UpdateRequired )
        => /\ tasks[k].appended
           /\ Len(tasks) = 1
              => /\ msgs = <<tasks[k].resp.Message>>
                 /\ \A q \in CallsOf("Print") :
                       (calls[q].pc = "ret" /\ calls[q].before = 1)
                       => calls[q].emitted = <<tasks[k].resp.Message>>

C13_Witness ==
    /\ Len(tasks) = 1
    /\ tasks[1].pc = "done"
    /\ tasks[1].saved = "err"
    /\ tasks[1].appended
    /\ \E q \in CallsOf("Print") :
          calls[q].pc = "ret" /\ calls[q].emitted = <<"v2 available">>

\* the tasks that have not ended
Running == {k \in DOMAIN tasks : tasks[k].pc # "done"}

InList == {k \in DOMAIN tasks : tasks[k].at # 0}

\* C15: the reset of Check and the append of a task exclude each other
\* (one holder of checks.mu at a time); after the reset of a second Check
\* checks.msgs holds the messages appended since, once each, in the order
\* of the appends; a Print called after both launches returns when both
\* tasks have ended and logs these messages in that order.
C15_ResetAndAppendOrder ==
    /\ \A i \in DOMAIN calls : calls[i].pc = "c_reset" => mu = <<"call", i>>
    /\ \A k \in DOMAIN tasks : tasks[k].pc = "append" => mu = <<"task", k>>
    /\ Len(msgs) = Cardinality(InList)
    /\ \A k \in InList :
          /\ tasks[k].at <= Len(msgs)
          /\ msgs[tasks[k].at] = tasks[k].resp.Message
          /\ \A j \in InList : tasks[j].at = tasks[k].at => j = k
    /\ \A q \in CallsOf("Print") :
          (calls[q].pc = "ret" /\ calls[q].before = 2 /\ Len(tasks) = 2)
          => /\ Running = {}
             /\ Len(calls[q].emitted) = Cardinality(InList)
             /\ \A k \in InList :
                   calls[q].emitted[tasks[k].at] = tasks[k].resp.Message

C15_Witness ==
    /\ Len(tasks) = 2
    /\ tasks[1].at = 2
    /\ tasks[2].at = 1
    /\ \E q \in CallsOf("Print") :
          /\ calls[q].pc = "ret"
          /\ calls[q].emitted = <<"", "v2 available">>

\* C16: a step in which a Check returns because today is the recorded
\* weekday changes nothing but the call itself: it launches no task,
\* leaves the wait group, the lock, the ledger and checks.msgs (the
\* messages of an earlier check included) as they were.
C16_DebouncedCheckNoOp ==
    [][\A i \in DOMAIN calls' :
          ( /\ i \notin DOMAIN calls
            /\ calls'[i].kind = "Check"
            /\ ~calls'[i].killed
            /\ calls'[i].pc = "ret" )
          => /\ calls'[i].task = 0
             /\ UNCHANGED <<msgs, files, writer, tasks, waitgroup, mu>>]_vars

C16_Witness ==
    \E i \in CallsOf("Check") :
        /\ ~calls[i].killed
        /\ calls[i].pc = "ret"
        /\ calls[i].task = 0
        /\ calls[i].sawWriter = 1
        /\ calls[i].pending = 1
        /\ msgs = <<"v2 available">>

\* the Check has gone past the comparison of the weekdays
Launches(j) == calls[j].pc \in {"c_lock", "c_reset"} \/ calls[j].task # 0

\* C17: with the kill switch unset, Check launches exactly when today's
\* weekday is not that of the record it loaded; a Check that loads the
\* record a task saved n days before launches for n = 1..6, launches
\* nothing for n = 0 and n = 7, and launches again for n = 8.
C17_WeekdayGate ==
    \A j \in CallsOf("Check") :
        /\ Launches(j) <=> Weekday(calls[j].loadDay) # calls[j].rec
        /\ (calls[j].found /\ calls[j].sawWriter # 0)
           => LET n == calls[j].loadDay - tasks[calls[j].sawWriter].saveDay
              IN  /\ n \in 0..MaxTicks
                  /\ n \in 1..6 => Launches(j)
                  /\ n \in {0, 7} => ~Launches(j)
                  /\ n = 8 => Launches(j)

C17_Witness ==
    \E j \in CallsOf("Check") :
        /\ calls[j].found
        /\ calls[j].sawWriter # 0
        /\ calls[j].loadDay - tasks[calls[j].sawWriter].saveDay = 7
        /\ calls[j].pc = "ret"
        /\ calls[j].task = 0

\* the record file holds the weekday the round trip saved
HoldsSaved ==
    files[Path(rt.app)] = FileOf(Marshal([LastCheckForUpdates |-> rt.w]))

\* C18, as claimed: Save returns an error whenever the configuration
\* directory is not to be had or the record file cannot be written, and
\* on no other ground; it returns nil only if the file now holds the
\* saved weekday; with an error the file is as it was.
C18_SaveFailsOnFsErrors ==
    rt.pc \in {"saved", "loaded"}
    => /\ fsys \in {"nocfg", "openerr", "writeerr"} => rt.err
       /\ rt.err => fsys # "ok"
       /\ ~rt.err => HoldsSaved
       /\ rt.err => files[Path(rt.app)] = rt.old

\* C19: checks.mu is held by a task only while it appends and by a Check
\* only while it resets and launches; its holder can always take its next
\* step, so a Check that waits for the lock waits for one reset or one
\* append, never for a network call or a file, and a Check that holds it
\* returns.
C19_CheckNeverBlocksOnIO ==
    /\ \A k \in DOMAIN tasks :
          /\ mu = <<"task", k>> => tasks[k].pc = "append"
          /\ tasks[k].pc = "append" => ENABLED TaskAppend(k)
    /\ \A i \in DOMAIN calls :
          /\ mu = <<"call", i>> => calls[i].pc = "c_reset"
          /\ calls[i].pc = "c_reset" => ENABLED CheckLaunch(i)
          /\ calls[i].pc = "c_lock"
             => \/ ENABLED CheckLock(i)
                \/ \E k \in DOMAIN tasks : ENABLED TaskAppend(k)
                \/ \E j \in DOMAIN calls : ENABLED CheckLaunch(j)
    /\ mu # Free
       => \/ \E k \in DOMAIN tasks : mu = <<"task", k>>
          \/ \E i \in DOMAIN calls : mu = <<"call", i>>

C19_Witness ==
    \E i \in CallsOf("Check") :
        /\ calls[i].pc = "ret"
        /\ calls[i].task = 2
        /\ tasks[1].pc = "call"
        /\ tasks[2].pc = "done"
        /\ tasks[2].appended

\* C20, as claimed: Print reads checks.msgs when no holder of checks.mu is
\* about to write it and no task is running, so no read of Print gets a
\* slice that is being written.
C20_NoRace ==
    \A q \in CallsOf("Print") :
        /\ calls[q].pc = "p_range" => (~Writing /\ Running = {})
        /\ calls[q].pc # "panic"

====
